---- MODULE Spec2Model ----
(***************************************************************************)
(* A model of the transaction processing engine (src/src/engine.rs).       *)
(*                                                                         *)
(* Spec    : the loop of process_account_transactions, one iteration per   *)
(*           step.  The vector is read one element at a time, so each      *)
(*           step draws the next element: every vector of at most MaxLen   *)
(*           transactions is replayed.                                     *)
(* SpecVec : process_account_transactions as a function of its whole       *)
(*           argument, for every vector of at most MaxVecLen transactions. *)
(* SpecRun : run, one record per grouping step and one client per          *)
(*           collecting step, for every vector of at most MaxRecords       *)
(*           input records.                                                *)
(*                                                                         *)
(* Record constructors list their fields in TLC's normal order.            *)
(*                                                                         *)
(* Amount is an f32 in the source.  The amounts of the model are small     *)
(* whole numbers, on which f32 addition, subtraction and comparison are    *)
(* exact, so the integer arithmetic below is the arithmetic of the code    *)
(* on these inputs.  Rounding of large or fractional amounts, NaN and the  *)
(* infinities are outside the model.                                       *)
(***************************************************************************)
EXTENDS Integers, Sequences, FiniteSets, TLC

\* ---------------------------------------------------------------- bounds
MaxLen == 6
MaxVecLen == 3
MaxRecords == 3
MaxTx == 2

TxIds == 1..MaxTx
Amounts == {-1, 1, 2}

\* Option<T>: None is the empty sequence, Some(x) the one-element sequence.
None == <<>>
Some(x) == <<x>>

\* Result<T, E>: Err is the empty sequence, Ok(x) the one-element sequence.
Err == <<>>
Ok(x) == <<x>>

\* ------------------------------------------------------------ InputRecord
InputRecord(type, client, tx, amount) ==
    [type |-> type, client |-> client, tx |-> tx, amount |-> amount]

\* The record types: the five kinds and an unrecognized one.
Types == {"deposit", "withdrawal", "dispute", "resolve", "chargeback", ""}
ClientIds == {1, 2}
RunTxIds == {1}
RunAmounts == {1}

InputRecords ==
    {InputRecord(ty, c, t, a) :
        ty \in Types, c \in ClientIds, t \in RunTxIds,
        a \in {None} \cup {Some(x) : x \in RunAmounts}}

\* All vectors of at most k input records.
InputRecordVecs(k) == UNION {[1..m -> InputRecords] : m \in 0..k}

\* ------------------------------------------------------ Transaction Model
Deposit(tx_id, amount) == [tx |-> tx_id, amount |-> amount, kind |-> "Deposit"]
Withdrawal(tx_id, amount) == [tx |-> tx_id, amount |-> amount, kind |-> "Withdrawal"]
Dispute(tx_id) == [tx |-> tx_id, kind |-> "Dispute"]
Resolve(tx_id) == [tx |-> tx_id, kind |-> "Resolve"]
Chargeback(tx_id) == [tx |-> tx_id, kind |-> "Chargeback"]

\* Mutant of parse_record: an amount on a dispute, resolve or chargeback is
\* ignored instead of making the record invalid.
parse_recordIgnoresAmount(record) ==
    CASE record.type = "dispute" -> Ok(<<record.client, Dispute(record.tx)>>)
      [] record.type = "resolve" -> Ok(<<record.client, Resolve(record.tx)>>)
      [] record.type = "chargeback" ->
             Ok(<<record.client, Chargeback(record.tx)>>)
      [] record.type = "deposit" /\ record.amount # None ->
             Ok(<<record.client, Deposit(record.tx, record.amount[1])>>)
      [] record.type = "withdrawal" /\ record.amount # None ->
             Ok(<<record.client, Withdrawal(record.tx, record.amount[1])>>)
      [] OTHER -> Err

\* Parses an InputRecord into a client id and Transaction pair.
parse_record(record) ==
    IF record.amount # None
    THEN LET amount == record.amount[1] IN
         CASE record.type = "deposit" ->
                  Ok(<<record.client, Deposit(record.tx, amount)>>)
           [] record.type = "withdrawal" ->
                  Ok(<<record.client, Withdrawal(record.tx, amount)>>)
           [] OTHER -> Err
    ELSE CASE record.type = "dispute" ->
                  Ok(<<record.client, Dispute(record.tx)>>)
           [] record.type = "resolve" ->
                  Ok(<<record.client, Resolve(record.tx)>>)
           [] record.type = "chargeback" ->
                  Ok(<<record.client, Chargeback(record.tx)>>)
           [] OTHER -> Err

Transaction ==
    {Deposit(t, a) : t \in TxIds, a \in Amounts}
    \cup {Withdrawal(t, a) : t \in TxIds, a \in Amounts}
    \cup {Dispute(t) : t \in TxIds}
    \cup {Resolve(t) : t \in TxIds}
    \cup {Chargeback(t) : t \in TxIds}

\* All vectors of at most n transactions.
TransactionVecs(n) == UNION {[1..k -> Transaction] : k \in 0..n}

\* ---------------------------------------------------------- Account Ledger
\* The locals of process_account_transactions before the loop.
NewLedger ==
    [account_state |-> None,
     deposit_amounts |-> <<>>,
     disputed_deposit_ids |-> {},
     brk |-> FALSE]

\* The account created by the first deposit.
NewAccount(client_id) ==
    [client_id |-> client_id, available |-> 0, held |-> 0, locked |-> FALSE]

\* Mutant of OpenAccount: any first transaction opens the account.
OpenAccountOnAny(client_id, account_state, transaction) ==
    IF account_state = None
    THEN Some(NewAccount(client_id))
    ELSE account_state

\* if let None = account_state { if let Deposit = transaction { create } }
OpenAccount(client_id, account_state, transaction) ==
    IF account_state = None /\ transaction.kind = "Deposit"
    THEN Some(NewAccount(client_id))
    ELSE account_state

\* HashMap::insert: the new amount replaces a recorded one.
MapInsert(map, tx_id, amount) == (tx_id :> amount) @@ map

\* Mutant of DepositArm: a deposit clears the disputed mark of its tx id.
DepositArmClearsDispute(s, tx_id, amount) ==
    [s EXCEPT !.account_state[1].available = @ + amount,
              !.deposit_amounts = MapInsert(@, tx_id, amount),
              !.disputed_deposit_ids = @ \ {tx_id}]

\* Mutant of DepositArm: the deposit is not recorded.
DepositArmUnrecorded(s, tx_id, amount) ==
    [s EXCEPT !.account_state[1].available = @ + amount]

\* Mutant of DepositArm: a deposit reusing a tx id keeps the amount recorded
\* first.
DepositArmKeepsFirst(s, tx_id, amount) ==
    [s EXCEPT !.account_state[1].available = @ + amount,
              !.deposit_amounts =
                  IF tx_id \in DOMAIN @ THEN @ ELSE MapInsert(@, tx_id, amount)]

DepositArm(s, tx_id, amount) ==
    [s EXCEPT !.account_state[1].available = @ + amount,
              !.deposit_amounts = MapInsert(@, tx_id, amount)]

\* Mutant of WithdrawalArm: the whole balance cannot be withdrawn.
WithdrawalArmStrict(s, tx_id, amount) ==
    IF s.account_state[1].available > amount
    THEN [s EXCEPT !.account_state[1].available = @ - amount]
    ELSE s

WithdrawalArm(s, tx_id, amount) ==
    IF s.account_state[1].available >= amount
    THEN [s EXCEPT !.account_state[1].available = @ - amount]
    ELSE s

\* Mutant of DisputeArm: the disputed funds are not added to held.
DisputeArmNoHold(s, tx_id) ==
    IF tx_id \in DOMAIN s.deposit_amounts
    THEN LET amount == s.deposit_amounts[tx_id] IN
         [s EXCEPT !.account_state[1].available = @ - amount,
                   !.disputed_deposit_ids = @ \cup {tx_id}]
    ELSE s

\* Mutant of DisputeArm: a tx id without a deposit is marked disputed.
DisputeArmMarksUnknown(s, tx_id) ==
    IF tx_id \in DOMAIN s.deposit_amounts
    THEN LET amount == s.deposit_amounts[tx_id] IN
         [s EXCEPT !.account_state[1].available = @ - amount,
                   !.account_state[1].held = @ + amount,
                   !.disputed_deposit_ids = @ \cup {tx_id}]
    ELSE [s EXCEPT !.disputed_deposit_ids = @ \cup {tx_id}]

\* Mutant of DisputeArm: a dispute locks the account.
DisputeArmLocks(s, tx_id) ==
    IF tx_id \in DOMAIN s.deposit_amounts
    THEN LET amount == s.deposit_amounts[tx_id] IN
         [s EXCEPT !.account_state[1].available = @ - amount,
                   !.account_state[1].held = @ + amount,
                   !.account_state[1].locked = TRUE,
                   !.disputed_deposit_ids = @ \cup {tx_id}]
    ELSE s

\* Mutant of DisputeArm: the dispute is applied only if available covers it.
DisputeArmGuarded(s, tx_id) ==
    IF tx_id \in DOMAIN s.deposit_amounts
    THEN LET amount == s.deposit_amounts[tx_id] IN
         IF s.account_state[1].available >= amount
         THEN [s EXCEPT !.account_state[1].available = @ - amount,
                        !.account_state[1].held = @ + amount,
                        !.disputed_deposit_ids = @ \cup {tx_id}]
         ELSE s
    ELSE s

DisputeArm(s, tx_id) ==
    IF tx_id \in DOMAIN s.deposit_amounts
    THEN LET amount == s.deposit_amounts[tx_id] IN
         [s EXCEPT !.account_state[1].available = @ - amount,
                   !.account_state[1].held = @ + amount,
                   !.disputed_deposit_ids = @ \cup {tx_id}]
    ELSE s

\* Mutant of ResolveArm: funds are released without the disputed check.
ResolveArmUnchecked(s, tx_id) ==
    IF tx_id \in DOMAIN s.deposit_amounts
    THEN LET amount == s.deposit_amounts[tx_id] IN
         [s EXCEPT !.account_state[1].available = @ + amount,
                   !.account_state[1].held = @ - amount,
                   !.disputed_deposit_ids = @ \ {tx_id}]
    ELSE s

\* Mutant of ResolveArm: the held funds are released but the mark is kept.
ResolveArmKeepsMark(s, tx_id) ==
    IF tx_id \in DOMAIN s.deposit_amounts
    THEN LET amount == s.deposit_amounts[tx_id] IN
         IF tx_id \in s.disputed_deposit_ids
         THEN [s EXCEPT !.account_state[1].available = @ + amount,
                        !.account_state[1].held = @ - amount]
         ELSE s
    ELSE s

\* Mutant of ResolveArm: the funds are made available but stay held.
ResolveArmKeepsHeld(s, tx_id) ==
    IF tx_id \in DOMAIN s.deposit_amounts
    THEN LET amount == s.deposit_amounts[tx_id]
             released ==
                 IF tx_id \in s.disputed_deposit_ids
                 THEN [s EXCEPT !.account_state[1].available = @ + amount]
                 ELSE s
         IN [released EXCEPT !.disputed_deposit_ids = @ \ {tx_id}]
    ELSE s

ResolveArm(s, tx_id) ==
    IF tx_id \in DOMAIN s.deposit_amounts
    THEN LET amount == s.deposit_amounts[tx_id]
             released ==
                 IF tx_id \in s.disputed_deposit_ids
                 THEN [s EXCEPT !.account_state[1].available = @ + amount,
                                !.account_state[1].held = @ - amount]
                 ELSE s
         IN [released EXCEPT !.disputed_deposit_ids = @ \ {tx_id}]
    ELSE s

\* Mutant of ChargebackArm: the loop goes on after the chargeback.
ChargebackArmNoBreak(s, tx_id) ==
    IF tx_id \in DOMAIN s.deposit_amounts /\ tx_id \in s.disputed_deposit_ids
    THEN LET amount == s.deposit_amounts[tx_id] IN
         [s EXCEPT !.account_state[1].held = @ - amount,
                   !.account_state[1].locked = TRUE]
    ELSE s

\* Mutant of ChargebackArm: the amount is taken from available, not held.
ChargebackArmFromAvailable(s, tx_id) ==
    IF tx_id \in DOMAIN s.deposit_amounts /\ tx_id \in s.disputed_deposit_ids
    THEN LET amount == s.deposit_amounts[tx_id] IN
         [s EXCEPT !.account_state[1].available = @ - amount,
                   !.account_state[1].locked = TRUE,
                   !.brk = TRUE]
    ELSE s

\* Mutant of ChargebackArm: no check that the deposit is disputed.
ChargebackArmUndisputed(s, tx_id) ==
    IF tx_id \in DOMAIN s.deposit_amounts
    THEN LET amount == s.deposit_amounts[tx_id] IN
         [s EXCEPT !.account_state[1].held = @ - amount,
                   !.account_state[1].locked = TRUE,
                   !.brk = TRUE]
    ELSE s

ChargebackArm(s, tx_id) ==
    IF tx_id \in DOMAIN s.deposit_amounts /\ tx_id \in s.disputed_deposit_ids
    THEN LET amount == s.deposit_amounts[tx_id] IN
         [s EXCEPT !.account_state[1].held = @ - amount,
                   !.account_state[1].locked = TRUE,
                   !.brk = TRUE]
    ELSE s

\* match transaction { ... }
MatchTransaction(s, transaction) ==
    CASE transaction.kind = "Deposit" ->
             DepositArm(s, transaction.tx, transaction.amount)
      [] transaction.kind = "Withdrawal" ->
             WithdrawalArm(s, transaction.tx, transaction.amount)
      [] transaction.kind = "Dispute" -> DisputeArm(s, transaction.tx)
      [] transaction.kind = "Resolve" -> ResolveArm(s, transaction.tx)
      [] transaction.kind = "Chargeback" -> ChargebackArm(s, transaction.tx)

\* One iteration of the loop: open the account on the first deposit, skip the
\* transaction (continue) while there is no account, else apply it.
LoopBody(client_id, s, transaction) ==
    LET opened ==
            [s EXCEPT !.account_state =
                          OpenAccount(client_id, @, transaction)]
    IN IF opened.account_state = None
       THEN opened
       ELSE MatchTransaction(opened, transaction)

\* The whole loop, from ledger s on: stops at the end of the vector or at break.
RECURSIVE Replay(_, _, _, _)
Replay(client_id, s, transactions, k) ==
    IF k > Len(transactions) \/ s.brk
    THEN s
    ELSE Replay(client_id, LoopBody(client_id, s, transactions[k]),
                transactions, k + 1)

process_account_transactions(client_id, transactions) ==
    Replay(client_id, NewLedger, transactions, 1).account_state

\* ------------------------------------------------- Display for AccountState
\* The text of a number is the sequence of its characters.
Digit(d) == <<"0", "1", "2", "3", "4", "5", "6", "7", "8", "9">>[d + 1]

\* "{}" of a natural number: its decimal digits, most significant first.
RECURSIVE Digits(_)
Digits(m) ==
    IF m < 10
    THEN <<Digit(m)>>
    ELSE Append(Digits(m \div 10), Digit(m % 10))

\* "{:.4}" of a whole f32: the sign if negative, the digits, four zero decimals.
Fixed4(x) ==
    (IF x < 0 THEN <<"-">> ELSE <<>>)
        \o Digits(IF x < 0 THEN -x ELSE x)
        \o <<".", "0", "0", "0", "0">>

\* "{}" of a bool.
Bool(b) == IF b THEN <<"t", "r", "u", "e">> ELSE <<"f", "a", "l", "s", "e">>

\* Mutant of fmt: the total column is written from available alone.
fmtTotalAvailable(self) ==
    LET total == self.available IN
    <<Digits(self.client_id), Fixed4(self.available), Fixed4(self.held),
      Fixed4(total), Bool(self.locked)>>

\* The output line, as its five comma-separated fields:
\* client, available, held, total, locked.
fmt(self) ==
    LET total == self.available + self.held IN
    <<Digits(self.client_id), Fixed4(self.available), Fixed4(self.held),
      Fixed4(total), Bool(self.locked)>>

\* ------------------------------------------------------------ Orchestrator
\* Mutant of PushTransaction: the transaction is put at the front.
PushTransactionFront(histories, client, t) ==
    IF client \in DOMAIN histories
    THEN [histories EXCEPT ![client] = <<t>> \o @]
    ELSE (client :> <<t>>) @@ histories

\* Mutant of PushTransaction: a dispute, resolve or chargeback is also added
\* to the sequences of the other clients.
PushTransactionAcrossClients(histories, client, t) ==
    LET own == IF client \in DOMAIN histories
               THEN [histories EXCEPT ![client] = Append(@, t)]
               ELSE (client :> <<t>>) @@ histories
    IN IF t.kind \in {"Dispute", "Resolve", "Chargeback"}
       THEN [c \in DOMAIN own |->
                IF c = client THEN own[c] ELSE Append(own[c], t)]
       ELSE own

\* account_histories.entry(client_id).or_default().push(transaction)
PushTransaction(histories, client, t) ==
    IF client \in DOMAIN histories
    THEN [histories EXCEPT ![client] = Append(@, t)]
    ELSE (client :> <<t>>) @@ histories

\* Mutant of NextKey: the keys are visited in descending order.
NextKeyDescending(histories, visited) ==
    CHOOSE c \in DOMAIN histories \ visited :
        \A d \in DOMAIN histories \ visited : c >= d

\* BTreeMap::iter: the next key in ascending order after the keys in visited.
NextKey(histories, visited) ==
    CHOOSE c \in DOMAIN histories \ visited :
        \A d \in DOMAIN histories \ visited : c <= d

\* run as a function of its argument: the for loop over the first k records,
RECURSIVE GroupRecords(_, _)
GroupRecords(records, k) ==
    IF k = 0
    THEN <<>>
    ELSE LET histories == GroupRecords(records, k - 1)
             parsed == parse_record(records[k])
         IN IF parsed # Err
            THEN PushTransaction(histories, parsed[1][1], parsed[1][2])
            ELSE histories

\* then iter().filter_map(..).collect() over the keys not yet visited.
RECURSIVE CollectAccounts(_, _, _)
CollectAccounts(histories, visited, output) ==
    IF DOMAIN histories \ visited = {}
    THEN output
    ELSE LET client == NextKey(histories, visited)
             result == process_account_transactions(client, histories[client])
         IN CollectAccounts(histories, visited \cup {client},
                            IF result # None
                            THEN Append(output, result[1])
                            ELSE output)

run(records) ==
    CollectAccounts(GroupRecords(records, Len(records)), {}, <<>>)

\* ------------------------------------------------------------ variables
VARIABLES
    client_id,            \* the argument client_id
    transaction,          \* Spec: the loop variable, None before the loop
    n,                    \* Spec: how many elements the loop has read
    account_state,        \* Spec: Option<AccountState>
    deposit_amounts,      \* Spec: HashMap<TxId, Amount>
    disputed_deposit_ids, \* Spec: HashSet<TxId>
    transactions,         \* SpecVec: the argument transactions
    returned,             \* SpecVec: Some(the value returned) after the call
    line,                 \* SpecVec: Some(the output line of the value returned)
    records,              \* SpecRun: the argument records
    j,                    \* SpecRun: index of the next record of the for loop
    account_histories,    \* SpecRun: BTreeMap<ClientId, Vec<Transaction>>
    visited,              \* SpecRun: the keys the iterator has yielded
    output,               \* SpecRun: the Vec<AccountState> being collected
    pc

ledger_vars == <<client_id, transaction, n, account_state, deposit_amounts,
                 disputed_deposit_ids>>
vec_vars == <<transactions, returned, line>>
run_vars == <<records, j, account_histories, visited, output>>

vars == <<ledger_vars, vec_vars, run_vars, pc>>

\* The variables of the other specifications, which a specification leaves
\* at these values.
LedgerIdle ==
    /\ client_id = 1
    /\ transaction = None
    /\ n = 0
    /\ account_state = None
    /\ deposit_amounts = <<>>
    /\ disputed_deposit_ids = {}

VecIdle == transactions = <<>> /\ returned = None /\ line = None

RunIdle ==
    /\ records = <<>>
    /\ j = 1
    /\ account_histories = <<>>
    /\ visited = {}
    /\ output = <<>>

\* The client id of process_account_transactions_test.
TestClientId == 1

\* ------------------------------------ Spec: process_account_transactions
Ledger ==
    [account_state |-> account_state,
     deposit_amounts |-> deposit_amounts,
     disputed_deposit_ids |-> disputed_deposit_ids,
     brk |-> FALSE]

Init ==
    /\ client_id = TestClientId
    /\ transaction = None
    /\ n = 0
    /\ account_state = NewLedger.account_state
    /\ deposit_amounts = NewLedger.deposit_amounts
    /\ disputed_deposit_ids = NewLedger.disputed_deposit_ids
    /\ pc = "loop"
    /\ VecIdle
    /\ RunIdle

\* One iteration of the for loop, on a next element t of the vector.
Iterate(t) ==
    /\ pc = "loop"
    /\ n < MaxLen
    /\ transaction' = Some(t)
    /\ n' = n + 1
    /\ LET s == LoopBody(client_id, Ledger, t) IN
         /\ account_state' = s.account_state
         /\ deposit_amounts' = s.deposit_amounts
         /\ disputed_deposit_ids' = s.disputed_deposit_ids
         /\ pc' = IF s.brk THEN "return" ELSE "loop"
    /\ UNCHANGED <<client_id, vec_vars, run_vars>>

ProcessDeposit ==
    \E tx_id \in TxIds, amount \in Amounts : Iterate(Deposit(tx_id, amount))

ProcessWithdrawal ==
    \E tx_id \in TxIds, amount \in Amounts : Iterate(Withdrawal(tx_id, amount))

ProcessDispute == \E tx_id \in TxIds : Iterate(Dispute(tx_id))

ProcessResolve == \E tx_id \in TxIds : Iterate(Resolve(tx_id))

ProcessChargeback == \E tx_id \in TxIds : Iterate(Chargeback(tx_id))

\* The vector is exhausted: the function returns account_state.
Return ==
    /\ pc = "loop"
    /\ pc' = "return"
    /\ UNCHANGED <<ledger_vars, vec_vars, run_vars>>

Next ==
    \/ ProcessDeposit
    \/ ProcessWithdrawal
    \/ ProcessDispute
    \/ ProcessResolve
    \/ ProcessChargeback
    \/ Return

Spec == Init /\ [][Next]_vars

\* ------------------------------------------------------- claims on Spec
\* This step is an iteration of the loop on transaction t.
Step(t) == n' = n + 1 /\ transaction' = Some(t)

Exists == account_state # None
Acct == account_state[1]
Known(tx_id) == tx_id \in DOMAIN deposit_amounts
Disputed(tx_id) == tx_id \in disputed_deposit_ids
Account(available, held, locked) ==
    Some([client_id |-> TestClientId, available |-> available,
          held |-> held, locked |-> locked])

\* C1: once a chargeback has locked the account, no step of the replay
\* changes available, held or locked (the state returned is the state right
\* after the chargeback, and locked stays true).
C1_LockedIsFinal ==
    [][(Exists /\ Acct.locked) => account_state' = account_state]_vars

\* Deposit, dispute, chargeback: the function returns at the third of up to
\* MaxLen elements, with the account locked.
C1_Witness ==
    /\ pc = "return"
    /\ n = 3
    /\ transaction = Some(Chargeback(1))
    /\ account_state = Account(0, 0, TRUE)

\* C2: a Dispute of a known deposit that is already disputed changes neither
\* the account state nor the disputed set.
C2_DisputeIdempotent ==
    [][\A tx_id \in TxIds :
         (Step(Dispute(tx_id)) /\ Exists /\ Known(tx_id) /\ Disputed(tx_id))
         => /\ account_state' = account_state
            /\ disputed_deposit_ids' = disputed_deposit_ids]_vars

\* C5: a Withdrawal on an existing account takes amount from available when
\* amount <= available and else leaves available alone; held, locked, the
\* recorded deposits and the disputed set do not change, and the loop goes on.
C5_WithdrawalGuard ==
    [][\A tx_id \in TxIds, amount \in Amounts :
         (Step(Withdrawal(tx_id, amount)) /\ Exists)
         => /\ account_state' # None
            /\ account_state'[1].available =
                   IF amount <= Acct.available
                   THEN Acct.available - amount
                   ELSE Acct.available
            /\ account_state'[1].held = Acct.held
            /\ account_state'[1].locked = Acct.locked
            /\ deposit_amounts' = deposit_amounts
            /\ disputed_deposit_ids' = disputed_deposit_ids
            /\ pc' = "loop"]_vars

\* The whole balance was withdrawn: deposit 2, withdrawal 2.
C5_Witness ==
    /\ n = 2
    /\ transaction = Some(Withdrawal(2, 2))
    /\ account_state = Account(0, 0, FALSE)
    /\ deposit_amounts = (1 :> 2)

\* C6: every Deposit adds exactly amount to available (from 0 when it creates
\* the account), leaves held and locked alone (0 and false on creation) and
\* records amount as the amount of tx.
C6_DepositAlwaysSucceeds ==
    [][\A tx_id \in TxIds, amount \in Amounts :
         Step(Deposit(tx_id, amount))
         => /\ account_state' # None
            /\ account_state'[1].client_id = client_id
            /\ account_state'[1].available =
                   (IF Exists THEN Acct.available ELSE 0) + amount
            /\ account_state'[1].held = (IF Exists THEN Acct.held ELSE 0)
            /\ account_state'[1].locked =
                   (IF Exists THEN Acct.locked ELSE FALSE)
            /\ tx_id \in DOMAIN deposit_amounts'
            /\ deposit_amounts'[tx_id] = amount
            /\ disputed_deposit_ids' = disputed_deposit_ids
            /\ pc' = "loop"]_vars

\* Two deposits: the first created the account, the second added to it.
C6_Witness ==
    /\ n = 2
    /\ transaction = Some(Deposit(2, 2))
    /\ account_state = Account(3, 0, FALSE)
    /\ deposit_amounts = (1 :> 1) @@ (2 :> 2)

\* C7: a Resolve of a known deposit that is not disputed changes neither the
\* account state nor the disputed set.
C7_NoOpResolve ==
    [][\A tx_id \in TxIds :
         (Step(Resolve(tx_id)) /\ Exists /\ Known(tx_id) /\ ~Disputed(tx_id))
         => /\ account_state' = account_state
            /\ disputed_deposit_ids' = disputed_deposit_ids
            /\ deposit_amounts' = deposit_amounts]_vars

\* Deposit, then a resolve of the deposit that was never disputed.
C7_Witness ==
    /\ n = 2
    /\ transaction = Some(Resolve(1))
    /\ account_state = Account(2, 0, FALSE)
    /\ deposit_amounts = (1 :> 2)
    /\ disputed_deposit_ids = {}

\* C9: a Chargeback of a known, disputed deposit takes the recorded amount
\* from held, locks the account and leaves available alone.
C9_ChargebackEffect ==
    [][\A tx_id \in TxIds :
         (Step(Chargeback(tx_id)) /\ Exists /\ Known(tx_id) /\ Disputed(tx_id))
         => /\ account_state' # None
            /\ account_state'[1].held = Acct.held - deposit_amounts[tx_id]
            /\ account_state'[1].locked = TRUE
            /\ account_state'[1].available = Acct.available]_vars

\* Two deposits, a dispute and the chargeback of the second deposit.
C9_Witness ==
    /\ n = 4
    /\ transaction = Some(Chargeback(2))
    /\ account_state = Account(1, 0, TRUE)
    /\ deposit_amounts = (1 :> 1) @@ (2 :> 2)
    /\ disputed_deposit_ids = {2}

\* C10: a Chargeback of a known deposit that is not disputed changes nothing
\* (account state, disputed set, recorded deposits), does not lock the
\* account and does not end the loop: later transactions are applied.
C10_NoOpChargeback ==
    [][\A tx_id \in TxIds :
         (Step(Chargeback(tx_id)) /\ Exists /\ Known(tx_id) /\ ~Disputed(tx_id))
         => /\ account_state' = account_state
            /\ disputed_deposit_ids' = disputed_deposit_ids
            /\ deposit_amounts' = deposit_amounts
            /\ pc' = "loop"]_vars

\* Deposit, then a chargeback of the deposit that was never disputed: the
\* account is as the deposit left it and the loop goes on.
C10_Witness ==
    /\ n = 2
    /\ transaction = Some(Chargeback(1))
    /\ account_state = Account(1, 0, FALSE)
    /\ deposit_amounts = (1 :> 1)
    /\ disputed_deposit_ids = {}
    /\ pc = "loop"

\* C11: a Dispute of a known deposit that is not disputed moves exactly the
\* recorded amount from available to held, marks the tx disputed and leaves
\* locked alone.
C11_DisputeEffect ==
    [][\A tx_id \in TxIds :
         (Step(Dispute(tx_id)) /\ Exists /\ Known(tx_id) /\ ~Disputed(tx_id))
         => /\ account_state' # None
            /\ account_state'[1].available =
                   Acct.available - deposit_amounts[tx_id]
            /\ account_state'[1].held = Acct.held + deposit_amounts[tx_id]
            /\ account_state'[1].locked = Acct.locked
            /\ disputed_deposit_ids' = disputed_deposit_ids \cup {tx_id}
            /\ deposit_amounts' = deposit_amounts]_vars

\* Two deposits, then the dispute of the second.
C11_Witness ==
    /\ n = 3
    /\ transaction = Some(Dispute(2))
    /\ account_state = Account(1, 2, FALSE)
    /\ deposit_amounts = (1 :> 1) @@ (2 :> 2)
    /\ disputed_deposit_ids = {2}

\* C13: a Dispute, Resolve or Chargeback of a tx id with no recorded deposit
\* changes nothing (account state, disputed set, recorded deposits) and the
\* loop goes on: there is no error outcome.
C13_UnknownTxAbsorbed ==
    [][\A tx_id \in TxIds :
         ((Step(Dispute(tx_id)) \/ Step(Resolve(tx_id))
              \/ Step(Chargeback(tx_id)))
          /\ ~Known(tx_id))
         => /\ account_state' = account_state
            /\ disputed_deposit_ids' = disputed_deposit_ids
            /\ deposit_amounts' = deposit_amounts
            /\ pc' = "loop"]_vars

\* Tx 1 is deposited, tx 2 is used by a withdrawal only, and tx 2 is disputed.
C13_Witness ==
    /\ n = 3
    /\ transaction = Some(Dispute(2))
    /\ account_state = Account(0, 0, FALSE)
    /\ deposit_amounts = (1 :> 1)
    /\ disputed_deposit_ids = {}
    /\ pc = "loop"

\* The sum of the recorded amounts of the tx ids in S.
RECURSIVE SumAmounts(_, _)
SumAmounts(amounts, S) ==
    IF S = {}
    THEN 0
    ELSE LET tx_id == CHOOSE t \in S : TRUE IN
         amounts[tx_id] + SumAmounts(amounts, S \ {tx_id})

\* C17: while no chargeback has succeeded, held is the sum of the recorded
\* amounts of the deposits marked disputed (0 when none is).
C17_HeldIsDisputedSum ==
    (Exists /\ ~Acct.locked)
        => Acct.held = SumAmounts(deposit_amounts, disputed_deposit_ids)

\* C18: locked becomes true in a step iff the step is a Chargeback of a known,
\* disputed deposit; such a step happens only on an unlocked account and ends
\* the loop, so at most one takes effect; locked is false before the loop.
C18_LockedIffChargeback ==
    [][LET lockedBefore == Exists /\ Acct.locked
           lockedAfter == account_state' # None /\ account_state'[1].locked
           applied ==
               \E tx_id \in TxIds :
                   /\ Step(Chargeback(tx_id))
                   /\ Exists /\ Known(tx_id) /\ Disputed(tx_id)
       IN /\ lockedAfter <=> (lockedBefore \/ applied)
          /\ applied => (~lockedBefore /\ pc' = "return")
          /\ n = 0 => ~lockedBefore]_vars

\* The deposit of tx 2 is disputed and charged back; tx 1 is untouched.
C18_Witness ==
    /\ n = 4
    /\ transaction = Some(Chargeback(2))
    /\ account_state = Account(2, 0, TRUE)
    /\ deposit_amounts = (1 :> 2) @@ (2 :> 1)
    /\ disputed_deposit_ids = {2}
    /\ pc = "return"

\* The dispute status of tx_id in a ledger whose last transaction is last:
\* the code records the disputed mark only, and the deposit charged back is the
\* one the locking Chargeback, the last transaction of the replay, names.
DepositStatus(amounts, disputed, account, last, tx_id) ==
    IF tx_id \notin DOMAIN amounts
    THEN "NoDeposit"
    ELSE IF /\ tx_id \in disputed
            /\ account # None /\ account[1].locked
            /\ last = Some(Chargeback(tx_id))
         THEN "ChargedBack"
         ELSE IF tx_id \in disputed THEN "Disputed" ELSE "Clean"

Status(tx_id) ==
    DepositStatus(deposit_amounts, disputed_deposit_ids, account_state,
                  transaction, tx_id)

StatusNext(tx_id) ==
    DepositStatus(deposit_amounts', disputed_deposit_ids', account_state',
                  transaction', tx_id)

\* C19: a deposit's status changes only Clean -> Disputed by its Dispute,
\* Disputed -> Clean by its Resolve and Disputed -> ChargedBack by its
\* Chargeback, and these three events do make the change (so a resolved
\* deposit can be disputed again); ChargedBack is never left, and reaching it
\* ends the loop.
C19_DepositStatusMachine ==
    [][\A tx_id \in TxIds :
         LET before == Status(tx_id)
             after == StatusNext(tx_id)
         IN /\ (before = "Clean" /\ after # "Clean")
                => (after = "Disputed" /\ Step(Dispute(tx_id)))
            /\ (before = "Disputed" /\ after # "Disputed")
                => \/ after = "Clean" /\ Step(Resolve(tx_id))
                   \/ after = "ChargedBack" /\ Step(Chargeback(tx_id))
            /\ before = "ChargedBack"
                => (after = "ChargedBack" /\ account_state' = account_state)
            /\ (before = "Clean" /\ Step(Dispute(tx_id)))
                => after = "Disputed"
            /\ (before = "Disputed" /\ Step(Resolve(tx_id)))
                => after = "Clean"
            /\ (before = "Disputed" /\ Step(Chargeback(tx_id)))
                => after = "ChargedBack"
            /\ (before # "ChargedBack" /\ after = "ChargedBack")
                => pc' = "return"]_vars

\* Both deposits were disputed and tx 1 was charged back: tx 1 is ChargedBack,
\* tx 2 is still Disputed, and the loop has ended.
C19_Witness ==
    /\ n = 5
    /\ Status(1) = "ChargedBack"
    /\ Status(2) = "Disputed"
    /\ account_state = Account(0, 2, TRUE)
    /\ deposit_amounts = (1 :> 1) @@ (2 :> 2)
    /\ pc = "return"

\* C21: a Deposit that reuses a recorded tx id adds its amount to available
\* and replaces the recorded amount, touching nothing else (the disputed mark
\* stays); no other event changes the recorded amounts; and a Dispute, Resolve
\* or Chargeback that takes effect moves the amount recorded at that point,
\* which is the last deposit's.
C21_DuplicateDepositOverwrites ==
    [][\A tx_id \in TxIds :
         /\ \A amount \in Amounts :
              (Step(Deposit(tx_id, amount)) /\ Exists /\ Known(tx_id))
              => /\ account_state'[1].available = Acct.available + amount
                 /\ account_state'[1].held = Acct.held
                 /\ account_state'[1].locked = Acct.locked
                 /\ deposit_amounts' =
                        [deposit_amounts EXCEPT ![tx_id] = amount]
                 /\ disputed_deposit_ids' = disputed_deposit_ids
                 /\ pc' = "loop"
         /\ (\A t \in TxIds, amount \in Amounts : ~Step(Deposit(t, amount)))
              => deposit_amounts' = deposit_amounts
         /\ (Step(Dispute(tx_id)) /\ Exists /\ Known(tx_id)
                 /\ ~Disputed(tx_id))
              => account_state'[1].held = Acct.held + deposit_amounts[tx_id]
         /\ (Step(Resolve(tx_id)) /\ Exists /\ Known(tx_id)
                 /\ Disputed(tx_id))
              => /\ account_state'[1].held = Acct.held - deposit_amounts[tx_id]
                 /\ account_state'[1].available =
                        Acct.available + deposit_amounts[tx_id]
         /\ (Step(Chargeback(tx_id)) /\ Exists /\ Known(tx_id)
                 /\ Disputed(tx_id))
              => account_state'[1].held =
                     Acct.held - deposit_amounts[tx_id]]_vars

\* Tx 1 is deposited with 1 and disputed, deposited again with 2, and
\* resolved: the resolve releases 2, so held is 1 - 2 and available 2 + 2.
C21_Witness ==
    /\ n = 4
    /\ transaction = Some(Resolve(1))
    /\ account_state = Account(4, -1, FALSE)
    /\ deposit_amounts = (1 :> 2)
    /\ disputed_deposit_ids = {}

\* C22: a Dispute of a known deposit, not disputed, whose amount exceeds
\* available is applied all the same and leaves available negative; a
\* Chargeback that takes effect on an account with negative available locks it
\* and leaves available as it is.
C22_DisputeUnguarded ==
    [][\A tx_id \in TxIds :
         /\ (/\ Step(Dispute(tx_id))
             /\ Exists /\ Known(tx_id) /\ ~Disputed(tx_id)
             /\ Acct.available < deposit_amounts[tx_id])
            => /\ account_state'[1].available =
                      Acct.available - deposit_amounts[tx_id]
               /\ account_state'[1].available < 0
               /\ disputed_deposit_ids' = disputed_deposit_ids \cup {tx_id}
         /\ (/\ Step(Chargeback(tx_id))
             /\ Exists /\ Known(tx_id) /\ Disputed(tx_id)
             /\ Acct.available < 0)
            => /\ account_state'[1].available = Acct.available
               /\ account_state'[1].locked]_vars

\* A deposit of 2, a withdrawal of 1, then the dispute and the chargeback of
\* the deposit: the account is locked with available -1.
C22_Witness ==
    /\ n = 4
    /\ transaction = Some(Chargeback(1))
    /\ account_state = Account(-1, 0, TRUE)
    /\ deposit_amounts = (1 :> 2)
    /\ disputed_deposit_ids = {1}
    /\ pc = "return"

\* ------- SpecUnique: the loop on vectors with non-negative amounts and
\* deposit tx ids that are not reused
ProcessUniqueDeposit ==
    \E tx_id \in TxIds, amount \in Amounts :
        /\ amount >= 0
        /\ ~Known(tx_id)
        /\ Iterate(Deposit(tx_id, amount))

ProcessNonNegativeWithdrawal ==
    \E tx_id \in TxIds, amount \in Amounts :
        /\ amount >= 0
        /\ Iterate(Withdrawal(tx_id, amount))

NextUnique ==
    \/ ProcessUniqueDeposit
    \/ ProcessNonNegativeWithdrawal
    \/ ProcessDispute
    \/ ProcessResolve
    \/ ProcessChargeback
    \/ Return

SpecUnique == Init /\ [][NextUnique]_vars

InitVec ==
    /\ client_id = TestClientId
    /\ transactions \in TransactionVecs(MaxVecLen)
    /\ returned = None
    /\ line = None
    /\ pc = "call"
    /\ transaction = None
    /\ n = 0
    /\ account_state = None
    /\ deposit_amounts = <<>>
    /\ disputed_deposit_ids = {}
    /\ RunIdle

Call ==
    /\ pc = "call"
    /\ returned' = Some(process_account_transactions(client_id, transactions))
    /\ pc' = "return"
    /\ UNCHANGED <<ledger_vars, transactions, line, run_vars>>

\* println!("{}", account_state): the account returned is written as a line.
PrintAccountState ==
    /\ pc = "return"
    /\ returned[1] # None
    /\ line' = Some(fmt(returned[1][1]))
    /\ pc' = "printed"
    /\ UNCHANGED <<ledger_vars, transactions, returned, run_vars>>

NextVec == Call \/ PrintAccountState

SpecVec == InitVec /\ [][NextVec]_vars

\* ---------------------------------------------------- claims on SpecVec
IsDeposit(t) == t.kind = "Deposit"

\* The index of the first Deposit of txs, Len(txs) + 1 if there is none.
FirstDeposit(txs) ==
    IF \E k \in 1..Len(txs) : IsDeposit(txs[k])
    THEN CHOOSE k \in 1..Len(txs) :
             IsDeposit(txs[k]) /\ \A m \in 1..(k - 1) : ~IsDeposit(txs[m])
    ELSE Len(txs) + 1

FromFirstDeposit(txs) == SubSeq(txs, FirstDeposit(txs), Len(txs))

\* C8: the value returned for a vector is the value returned for its suffix
\* that starts at the first Deposit: what precedes the first Deposit is never
\* applied, and a Chargeback there does not lock the account.
C8_EarlyEventsInert ==
    pc = "return" =>
        returned = Some(process_account_transactions(
                            client_id, FromFirstDeposit(transactions)))

\* A dispute and a chargeback of tx 1 arrive before the deposit of tx 1.
C8_Witness ==
    /\ pc = "return"
    /\ transactions = <<Dispute(1), Chargeback(1), Deposit(1, 2)>>
    /\ returned = Some(Account(2, 0, FALSE))

\* The ledger after the first k transactions of txs.
LedgerAfter(txs, k) == Replay(client_id, NewLedger, SubSeq(txs, 1, k), 1)

DigitValue(c) == CHOOSE d \in 0..9 : Digit(d) = c

RECURSIVE Number(_)
Number(chars) ==
    IF chars = <<>>
    THEN 0
    ELSE 10 * Number(SubSeq(chars, 1, Len(chars) - 1))
             + DigitValue(chars[Len(chars)])

ReadFixed4(chars) ==
    LET negative == chars[1] = "-"
        unsigned == IF negative THEN Tail(chars) ELSE chars
        point == CHOOSE k \in 1..Len(unsigned) : unsigned[k] = "."
        whole == Number(SubSeq(unsigned, 1, point - 1))
        decimals == Number(SubSeq(unsigned, point + 1, Len(unsigned)))
        magnitude == 10000 * whole + decimals
    IN IF negative THEN -magnitude ELSE magnitude

\* C20: the total column of the line written for a returned AccountState reads
\* back as available + held of that AccountState, which has no total field;
\* the available and held columns read back as the fields.
C20_TotalIsDerived ==
    pc = "printed" =>
        LET self == returned[1][1] IN
        /\ DOMAIN self = {"client_id", "available", "held", "locked"}
        /\ ReadFixed4(line[1][4]) = 10000 * (self.available + self.held)
        /\ ReadFixed4(line[1][2]) = 10000 * self.available
        /\ ReadFixed4(line[1][3]) = 10000 * self.held

\* An account with funds on both sides: 1,2.0000,1.0000,3.0000,false.
C20_Witness ==
    /\ pc = "printed"
    /\ transactions = <<Deposit(1, 2), Deposit(2, 1), Dispute(2)>>
    /\ returned = Some(Account(2, 1, FALSE))
    /\ line = Some(<<<<"1">>, <<"2", ".", "0", "0", "0", "0">>,
                     <<"1", ".", "0", "0", "0", "0">>,
                     <<"3", ".", "0", "0", "0", "0">>,
                     <<"f", "a", "l", "s", "e">>>>)

\* available + held of a ledger, 0 while there is no account.
TotalOf(s) ==
    IF s.account_state = None
    THEN 0
    ELSE s.account_state[1].available + s.account_state[1].held

\* What transaction t, met at ledger s, adds to the total: the amount of a
\* Deposit, minus the amount of a Withdrawal that passes the guard, minus the
\* recorded amount of a Chargeback of a known, disputed deposit, otherwise 0.
AppliedDelta(s, t) ==
    CASE t.kind = "Deposit" -> t.amount
      [] t.kind = "Withdrawal" ->
             IF s.account_state # None
                    /\ s.account_state[1].available >= t.amount
             THEN -t.amount
             ELSE 0
      [] t.kind = "Chargeback" ->
             IF /\ s.account_state # None
                /\ t.tx \in DOMAIN s.deposit_amounts
                /\ t.tx \in s.disputed_deposit_ids
             THEN -s.deposit_amounts[t.tx]
             ELSE 0
      [] OTHER -> 0

\* Every transaction the loop reads from the k-th on changes the total by its
\* AppliedDelta.
RECURSIVE EachStepConserves(_, _, _)
EachStepConserves(s, txs, k) ==
    IF k > Len(txs) \/ s.brk
    THEN TRUE
    ELSE LET next == LoopBody(client_id, s, txs[k]) IN
         /\ TotalOf(next) = TotalOf(s) + AppliedDelta(s, txs[k])
         /\ EachStepConserves(next, txs, k + 1)

\* The sum of the AppliedDelta of the transactions the loop reads from the
\* k-th on.
RECURSIVE AppliedSum(_, _, _)
AppliedSum(s, txs, k) ==
    IF k > Len(txs) \/ s.brk
    THEN 0
    ELSE AppliedDelta(s, txs[k])
             + AppliedSum(LoopBody(client_id, s, txs[k]), txs, k + 1)

InitRun ==
    /\ records \in InputRecordVecs(MaxRecords)
    /\ j = 1
    /\ account_histories = <<>>
    /\ visited = {}
    /\ output = <<>>
    /\ pc = "group"
    /\ LedgerIdle
    /\ VecIdle

\* for record in records: a record that parses is added to its client's
\* transaction sequence.
GroupRecord ==
    /\ pc = "group"
    /\ j <= Len(records)
    /\ parse_record(records[j]) # Err
    /\ LET parsed == parse_record(records[j])[1] IN
         account_histories' =
             PushTransaction(account_histories, parsed[1], parsed[2])
    /\ j' = j + 1
    /\ UNCHANGED <<records, visited, output, pc, ledger_vars, vec_vars>>

\* Err(_) => {}: an invalid record is ignored.
IgnoreRecord ==
    /\ pc = "group"
    /\ j <= Len(records)
    /\ parse_record(records[j]) = Err
    /\ j' = j + 1
    /\ UNCHANGED <<records, account_histories, visited, output, pc,
                   ledger_vars, vec_vars>>

\* The records are exhausted: the histories are iterated next.
StartCollect ==
    /\ pc = "group"
    /\ j > Len(records)
    /\ pc' = "collect"
    /\ UNCHANGED <<run_vars, ledger_vars, vec_vars>>

\* filter_map: the next client's history yields an account, which is collected.
CollectAccount ==
    /\ pc = "collect"
    /\ DOMAIN account_histories \ visited # {}
    /\ LET client == NextKey(account_histories, visited)
           result == process_account_transactions(
                         client, account_histories[client])
       IN /\ result # None
          /\ output' = Append(output, result[1])
          /\ visited' = visited \cup {client}
    /\ UNCHANGED <<records, j, account_histories, pc, ledger_vars, vec_vars>>

\* filter_map: the next client's history yields None, which is dropped.
DropAccount ==
    /\ pc = "collect"
    /\ DOMAIN account_histories \ visited # {}
    /\ LET client == NextKey(account_histories, visited)
           result == process_account_transactions(
                         client, account_histories[client])
       IN /\ result = None
          /\ visited' = visited \cup {client}
    /\ UNCHANGED <<records, j, account_histories, output, pc, ledger_vars,
                   vec_vars>>

\* The iterator is exhausted: run returns output.
ReturnRun ==
    /\ pc = "collect"
    /\ DOMAIN account_histories \ visited = {}
    /\ pc' = "done"
    /\ UNCHANGED <<run_vars, ledger_vars, vec_vars>>

NextRun ==
    \/ GroupRecord
    \/ IgnoreRecord
    \/ StartCollect
    \/ CollectAccount
    \/ DropAccount
    \/ ReturnRun

SpecRun == InitRun /\ [][NextRun]_vars

\* ---------------------------------------------------- claims on SpecRun
\* The transactions of client among the first k records, in input order,
\* invalid records left out.
RECURSIVE Bucket(_, _, _)
Bucket(client, recs, k) ==
    IF k = 0
    THEN <<>>
    ELSE LET parsed == parse_record(recs[k])
             before == Bucket(client, recs, k - 1)
         IN IF parsed # Err /\ parsed[1][1] = client
            THEN before \o <<parsed[1][2]>>
            ELSE before

HistoryOf(client) ==
    IF client \in DOMAIN account_histories
    THEN account_histories[client]
    ELSE <<>>

HasDeposit(txs) == \E k \in 1..Len(txs) : txs[k].kind = "Deposit"

InOutput(client) == \E k \in 1..Len(output) : output[k].client_id = client

\* C3: after any number of grouping steps each client's history is exactly
\* the valid records read so far that carry its id, in input order; a client
\* has a history iff it has such a record; and each collected account is the
\* ledger's replay of that client's whole history, in that order.
C3_BucketsKeepInputOrder ==
    /\ \A client \in ClientIds :
         LET bucket == Bucket(client, records, j - 1) IN
         /\ HistoryOf(client) = bucket
         /\ client \in DOMAIN account_histories <=> bucket # <<>>
    /\ \A k \in 1..Len(output) :
         Some(output[k]) =
             process_account_transactions(
                 output[k].client_id,
                 Bucket(output[k].client_id, records, Len(records)))

\* Client 1's deposit and dispute are separated by a record of client 2 and
\* followed by an invalid record.
C3_Witness ==
    /\ pc = "done"
    /\ records = <<InputRecord("deposit", 1, 1, Some(1)),
                   InputRecord("deposit", 2, 1, Some(1)),
                   InputRecord("dispute", 1, 1, None)>>
    /\ account_histories = (1 :> <<Deposit(1, 1), Dispute(1)>>)
                           @@ (2 :> <<Deposit(1, 1)>>)
    /\ Len(output) = 2
    /\ output[1] = [client_id |-> 1, available |-> 0, held |-> 1,
                    locked |-> FALSE]

\* C4: process_account_transactions returns no account for a client's grouped
\* sequence iff the sequence holds no Deposit, and run's output holds an
\* account of a client iff a valid Deposit of that client is in the input.
C4_AbsenceRule ==
    /\ pc = "collect" =>
         \A client \in DOMAIN account_histories :
             process_account_transactions(client, account_histories[client])
                 = None
             <=> ~HasDeposit(account_histories[client])
    /\ pc = "done" =>
         \A client \in ClientIds :
             InOutput(client) <=> HasDeposit(Bucket(client, records, Len(records)))

\* Client 2 has a withdrawal and a chargeback but no deposit: only client 1
\* is in the output.
C4_Witness ==
    /\ pc = "done"
    /\ records = <<InputRecord("withdrawal", 2, 1, Some(1)),
                   InputRecord("deposit", 1, 1, Some(1)),
                   InputRecord("chargeback", 2, 1, None)>>
    /\ visited = {1, 2}
    /\ output = <<[client_id |-> 1, available |-> 1, held |-> 0,
                   locked |-> FALSE]>>

\* C14: the accounts of the output are in strictly ascending ClientId order,
\* hence at most one per ClientId, while the output is built and when run
\* returns it.
C14_OutputAscending ==
    \A a, b \in 1..Len(output) :
        a < b => output[a].client_id < output[b].client_id

\* Client 2's deposit comes first in the input; client 1's account comes
\* first in the output.
C14_Witness ==
    /\ pc = "done"
    /\ records = <<InputRecord("deposit", 2, 1, Some(1)),
                   InputRecord("deposit", 1, 1, Some(1)),
                   InputRecord("withdrawal", 1, 1, Some(1))>>
    /\ output = <<[client_id |-> 1, available |-> 0, held |-> 0,
                   locked |-> FALSE],
                  [client_id |-> 2, available |-> 1, held |-> 0,
                   locked |-> FALSE]>>

\* The accounts of client in a vector of accounts.
AccountsOf(accounts, client) ==
    {accounts[k] : k \in {m \in 1..Len(accounts) :
                             accounts[m].client_id = client}}

\* The records that carry client's id, in input order.
OnlyClient(recs, client) == SelectSeq(recs, LAMBDA r : r.client = client)

\* C15: what run returns for a client is what run returns for it on the input
\* reduced to the records carrying its id: two inputs that agree on the
\* client's records give the client the same result.
C15_ClientIndependence ==
    pc = "done" =>
        \A client \in ClientIds :
            AccountsOf(output, client)
                = AccountsOf(run(OnlyClient(records, client)), client)

\* Client 2 disputes and charges back tx 1, which client 1 deposited: client
\* 1's account is as its deposit left it.
C15_Witness ==
    /\ pc = "done"
    /\ records = <<InputRecord("deposit", 1, 1, Some(1)),
                   InputRecord("dispute", 2, 1, None),
                   InputRecord("chargeback", 2, 1, None)>>
    /\ output = <<[client_id |-> 1, available |-> 1, held |-> 0,
                   locked |-> FALSE]>>

\* The three classes of invalid record.
Invalid(record) ==
    \/ record.type \notin
           {"deposit", "withdrawal", "dispute", "resolve", "chargeback"}
    \/ record.type \in {"deposit", "withdrawal"} /\ record.amount = None
    \/ record.type \in {"dispute", "resolve", "chargeback"}
           /\ record.amount # None

RemoveAt(recs, k) == SubSeq(recs, 1, k - 1) \o SubSeq(recs, k + 1, Len(recs))

\* C16: a record of unrecognized type, a deposit or withdrawal without an
\* amount, or a dispute, resolve or chargeback with an amount does not parse,
\* and what run returns is what it returns for the input without that record.
C16_InvalidRecordDropped ==
    pc = "done" =>
        \A k \in 1..Len(records) :
            Invalid(records[k])
            => /\ parse_record(records[k]) = Err
               /\ output = run(RemoveAt(records, k))

\* A dispute that carries an amount, between a deposit and a withdrawal
\* without amount: the account is as the deposit left it.
C16_Witness ==
    /\ pc = "done"
    /\ records = <<InputRecord("deposit", 1, 1, Some(1)),
                   InputRecord("dispute", 1, 1, Some(1)),
                   InputRecord("withdrawal", 1, 1, None)>>
    /\ account_histories = (1 :> <<Deposit(1, 1)>>)
    /\ output = <<[client_id |-> 1, available |-> 1, held |-> 0,
                   locked |-> FALSE]>>

====
